---- MODULE Spec2Model ----
(***************************************************************************)
(* Model of src/chemquery.py: the query-and-persistence pipeline.          *)
(* One process run is a walk of pc through the statements of __main__,     *)
(* iniciar_consulta_por_codigo and consultar_producto.  The SQLite table   *)
(* (db) and the CSV file (csv) outlive a run; the script can be run again. *)
(***************************************************************************)
EXTENDS Integers, Sequences, FiniteSets, TLC

\* ------------------------------------------------------------------ bounds
\* Number of times the script is run against the same two files.
MaxRuns == 2
\* Largest reading of the wall clock (datetime.now()).
MaxClock == 1

\* ------------------------------------------------------------------ values
\* Python's None.  Every str of the model is a TLA+ string different from it.
None == "<None>"
\* A local that has not been assigned yet in this run.
Unset == "<unset>"

\* Identifier texts an operator can type or a code can carry: the empty text
\* and a product name.
Textos == {"", "acetona"}

\* What barcode.data.decode("utf-8") can yield for a detected code.
Codigos == Textos

\* message['content'] of the first choice of a successful completion.
\* Characters outside ASCII are written with their escapes.
Contenidos == {"S\\u00ed, es inflamable.", "", None}

SentinelRateLimit == "Error: L\\u00edmite de consultas excedido."
SentinelError == "Error en la consulta."

\* The strings of the model holding a character outside ASCII.
NonAscii == {"S\\u00ed, es inflamable.", SentinelRateLimit}

\* ------------------------------------------------------------------ state
VARIABLES
    pc,              \* statement the run is at
    run,             \* number of the current process run
    clock,           \* current reading of datetime.now()
    tabla,           \* whether table consultas exists in consultas.db
    db,              \* rows of table consultas, in id order
    csv,             \* rows of registro_consultas.csv, in file order
    handles,         \* connections / files opened by this run and not closed
    opcion,          \* answer to the menu prompt
    codigo,          \* value returned by leer_codigo
    nombre_producto, \* argument of consultar_producto
    pregunta,        \* prompt built by consultar_producto
    resultado,       \* value returned by consulta_bot
    aiOutcome,       \* how openai.ChatCompletion.create ended
    storeOutcome,    \* how registrar_consulta ended
    logOutcome,      \* how registrar_consulta_csv ended
    aiCalls,         \* calls of consulta_bot in this run
    storeAttempts,   \* calls of registrar_consulta in this run
    logAttempts,     \* calls of registrar_consulta_csv in this run
    trace,           \* pipeline stages executed in this run, in order
    salida,          \* lines printed to the operator in this run, in order
    crashedIn,       \* function an uncaught exception came out of
    inserted,        \* INSERTs committed to consultas.db over all runs
    appended         \* rows written to the CSV file over all runs

vars == <<pc, run, clock, tabla, db, csv, handles, opcion, codigo,
          nombre_producto, pregunta, resultado, aiOutcome, storeOutcome,
          logOutcome, aiCalls, storeAttempts, logAttempts, trace, salida,
          crashedIn, inserted, appended>>

persistent == <<tabla, db, csv, inserted, appended>>
locals == <<opcion, codigo, nombre_producto, pregunta, resultado>>
outcomes == <<aiOutcome, storeOutcome, logOutcome>>
counters == <<aiCalls, storeAttempts, logAttempts>>

\* ------------------------------------------------------------ pure helpers
\* Python truthiness of the value tested by `if codigo:`.
TruthyAlways(v) == TRUE
Truthy(v) == v # None /\ v # ""

\* str(v) as an f-string renders it.
Str(v) == IF v = None THEN "None" ELSE v

\* The lines leer_codigo prints: its banner, then the code it detected.
LeerCodigoSalida(c) ==
    IF c = None
    THEN << <<"Escanea un codigo QR o de barras">> >>
    ELSE << <<"Escanea un codigo QR o de barras">>,
            <<"Codigo detectado", Str(c)>> >>

\* The f-string of consultar_producto, as its three parts.
Pregunta(nombre) ==
    <<"\\u00bfEs peligroso el producto ", Str(nombre),
      " y c\\u00f3mo manejarlo de manera segura?">>

\* What consulta_bot returns for each way the service call can end.
\*   ok             : the first choice's message['content'], unchanged
\*   RateLimitError : caught by the first except clause
\*   APIError, IndexError (no choices), KeyError (no 'content'): caught by
\*                    `except Exception`
AiOutcomes == {"ok", "RateLimitError", "APIError", "IndexError", "KeyError"}
ConsultaBotSwapped(outcome, content) ==
    CASE outcome = "ok" -> content
      [] outcome = "RateLimitError" -> SentinelError
      [] OTHER -> SentinelRateLimit
ConsultaBotResult(outcome, content) ==
    CASE outcome = "ok" -> content
      [] outcome = "RateLimitError" -> SentinelRateLimit
      [] OTHER -> SentinelError

\* A field of a csv.writer row as it reads back: None is written as an
\* empty field, a str as itself (quoted when it needs to be).
CsvField(v) == IF v = None THEN "" ELSE v

\* The row sqlite3 binds: str and None are stored as TEXT and NULL.  The
\* datetime is adapted to its ISO text, the same text str() gives csv.writer,
\* so both sinks hold the clock reading.
StoreRow(fecha, producto, res) ==
    [fecha |-> fecha, producto |-> producto, resultado |-> res]
CsvRowSwapped(fecha, producto, res) ==
    <<fecha, CsvField(res), CsvField(producto)>>
CsvRow(fecha, producto, res) ==
    <<fecha, CsvField(producto), CsvField(res)>>

\* Whether the locale encoding of open() may fail to encode the row.
MayFailEncoding(producto, res) == producto \in NonAscii \/ res \in NonAscii

\* How registrar_consulta can end, and whether an exception leaves it.
\*   connect_error : sqlite3.connect raises sqlite3.Error; it is printed, and
\*                   then `finally: conn.close()` finds conn unbound and
\*                   raises UnboundLocalError
\*   execute_error, commit_error : sqlite3.Error, printed, conn closed
StoreOutcomes == {"ok", "connect_error", "execute_error", "commit_error"}
StoreRaises(outcome) == outcome = "connect_error"

\* How registrar_consulta_csv can end, and whether an exception leaves it.
\*   open_error, write_error, close_error : OSError (IOError), printed
\*   encode_error : UnicodeEncodeError from the text layer while writing the
\*                  row; a ValueError, which `except IOError` does not catch
LogOutcomes == {"ok", "open_error", "write_error", "close_error", "encode_error"}
LogRaises(outcome) == outcome = "encode_error"

\* CREATE TABLE IF NOT EXISTS (lines 26-33): the rows of an existing table
\* are kept; a new table is empty.
CrearTablaRecreate(existe, rows) == <<>>
CrearTablaSiNoExiste(existe, rows) == IF existe THEN rows ELSE <<>>

\* INSERT INTO consultas (lines 43-47): a new row with the next id; the
\* table has no uniqueness constraint besides the id.
DbInsertDedup(rows, row) ==
    IF \E i \in 1..Len(rows) : rows[i].producto = row.producto
    THEN rows
    ELSE Append(rows, row)
DbInsert(rows, row) == Append(rows, row)

\* open(..., mode='a') and writer.writerow (lines 83-85): the row goes after
\* the rows the file holds.
CsvAppend(rows, row) == Append(rows, row)

\* Connections each database function leaves open when it ends with outcome o.
\*   inicializar_db     : conn.close() (line 35) is reached only when no
\*                        statement before it raised
\*   registrar_consulta : `finally: conn.close()` closes what connect opened
InitHandlesLeft(o) == IF o = "execute_error" THEN 1 ELSE 0
StoreHandlesLeft(o) == 0
\* Files registrar_consulta_csv leaves open: the with statement closes it.
LogHandlesLeft(o) == 0

\* The statement control reaches when statement s returns normally:
\* consultar_producto lines 74-77, then lines 116-117 / 132-133 of its caller.
SiguienteSinStore(s) ==
    CASE s = "BuildingPrompt" -> "Querying"
      [] s = "Querying" -> "PersistingLog"
      [] s = "PersistingLog" -> "Printing"
      [] OTHER -> "Done"
SiguienteLogFirst(s) ==
    CASE s = "BuildingPrompt" -> "Querying"
      [] s = "Querying" -> "PersistingLog"
      [] s = "PersistingLog" -> "PersistingStore"
      [] s = "PersistingStore" -> "Printing"
      [] OTHER -> "Done"
Siguiente(s) ==
    CASE s = "BuildingPrompt" -> "Querying"
      [] s = "Querying" -> "PersistingStore"
      [] s = "PersistingStore" -> "PersistingLog"
      [] s = "PersistingLog" -> "Printing"
      [] OTHER -> "Done"

\* ------------------------------------------------------------------- Init
Init ==
    /\ pc = "inicializar_db"
    /\ run = 1
    /\ clock = 0
    /\ tabla = FALSE
    /\ db = <<>>
    /\ csv = <<>>
    /\ handles = 0
    /\ opcion = Unset
    /\ codigo = Unset
    /\ nombre_producto = Unset
    /\ pregunta = <<>>
    /\ resultado = Unset
    /\ aiOutcome = Unset
    /\ storeOutcome = Unset
    /\ logOutcome = Unset
    /\ aiCalls = 0
    /\ storeAttempts = 0
    /\ logAttempts = 0
    /\ trace = <<>>
    /\ salida = <<>>
    /\ crashedIn = Unset
    /\ inserted = 0
    /\ appended = 0

\* ---------------------------------------------------------------- actions
\* The wall clock advances.  Only the readings of lines 46 and 85 are seen,
\* so the clock is let advance just before each of them.
Tick ==
    /\ pc \in {"PersistingStore", "PersistingLog"}
    /\ clock < MaxClock
    /\ clock' = clock + 1
    /\ UNCHANGED <<pc, run, persistent, handles, locals, outcomes, counters,
                   trace, salida, crashedIn>>

\* inicializar_db(): no try block, so any sqlite3.Error ends the run.
InicializarDb ==
    /\ pc = "inicializar_db"
    /\ \E o \in {"ok", "connect_error", "execute_error"} :
        /\ tabla' = (tabla \/ o = "ok")
        /\ db' = IF o = "ok" THEN CrearTablaSiNoExiste(tabla, db) ELSE db
        /\ handles' = handles + InitHandlesLeft(o)
        /\ pc' = IF o = "ok" THEN "menu" ELSE "Crashed"
        /\ crashedIn' = IF o = "ok" THEN crashedIn ELSE "inicializar_db"
    /\ UNCHANGED <<run, clock, csv, inserted, appended, locals, outcomes,
                   counters, trace, salida>>

\* __main__: the menu prompt and its three branches.
ElegirOpcion ==
    /\ pc = "menu"
    /\ \E o \in {"1", "2", "3"} :
        /\ opcion' = o
        /\ pc' = CASE o = "1" -> "AwaitingScan"
                   [] o = "2" -> "AwaitingInput"
                   [] OTHER -> "Done"
        /\ salida' = IF o \in {"1", "2"} THEN salida
                     ELSE Append(salida, <<"Opcion no valida">>)
    /\ UNCHANGED <<run, clock, persistent, handles, codigo, nombre_producto,
                   pregunta, resultado, outcomes, counters, trace, crashedIn>>

\* iniciar_consulta_por_codigo(): leer_codigo() returns the first decoded
\* code or None (ESC), and `if codigo:` picks the branch.
IniciarConsultaPorCodigo ==
    /\ pc = "AwaitingScan"
    /\ \E c \in Codigos \cup {None} :
        /\ codigo' = c
        /\ IF Truthy(c)
           THEN /\ nombre_producto' = c
                /\ pc' = "BuildingPrompt"
                /\ salida' = salida \o LeerCodigoSalida(c)
           ELSE /\ nombre_producto' = nombre_producto
                /\ pc' = "Aborted"
                /\ salida' = salida \o LeerCodigoSalida(c)
                                \o << <<"No se detecto ningun codigo">> >>
    /\ UNCHANGED <<run, clock, persistent, handles, opcion, pregunta,
                   resultado, outcomes, counters, trace, crashedIn>>

\* __main__, option 2: input() of the product name, passed on verbatim.
IngresarNombre ==
    /\ pc = "AwaitingInput"
    /\ \E n \in Textos :
        nombre_producto' = n
    /\ pc' = "BuildingPrompt"
    /\ UNCHANGED <<run, clock, persistent, handles, opcion, codigo, pregunta,
                   resultado, outcomes, counters, trace, salida, crashedIn>>

\* consultar_producto, line 74: the prompt.
ConstruirPregunta ==
    /\ pc = "BuildingPrompt"
    /\ pregunta' = Pregunta(nombre_producto)
    /\ trace' = Append(trace, "BuildingPrompt")
    /\ pc' = Siguiente(pc)
    /\ UNCHANGED <<run, clock, persistent, handles, opcion, codigo,
                   nombre_producto, resultado, outcomes, counters, salida,
                   crashedIn>>

\* consultar_producto, line 75: consulta_bot(pregunta).
ConsultaBot ==
    /\ pc = "Querying"
    /\ \E o \in AiOutcomes, content \in Contenidos :
        /\ o # "ok" => content = None
        /\ aiOutcome' = o
        /\ resultado' = ConsultaBotResult(o, content)
        /\ salida' = CASE o = "ok" -> salida
                       [] o = "RateLimitError" ->
                            Append(salida, <<"Se ha excedido el limite">>)
                       [] OTHER ->
                            Append(salida, <<"Error en la consulta a OpenAI", o>>)
    /\ aiCalls' = aiCalls + 1
    /\ trace' = Append(trace, "Querying")
    /\ pc' = Siguiente(pc)
    /\ UNCHANGED <<run, clock, persistent, handles, opcion, codigo,
                   nombre_producto, pregunta, storeOutcome, logOutcome,
                   storeAttempts, logAttempts, crashedIn>>

\* consultar_producto, lines 76-77: registrar_consulta(nombre_producto,
\* resultado), then the return to the caller.
RegistrarConsulta ==
    /\ pc = "PersistingStore"
    /\ \E o \in StoreOutcomes :
        /\ storeOutcome' = o
        /\ db' = IF o = "ok"
                 THEN DbInsert(db, StoreRow(clock, nombre_producto,
                                            resultado))
                 ELSE db
        /\ inserted' = IF o = "ok" THEN inserted + 1 ELSE inserted
        /\ handles' = handles + StoreHandlesLeft(o)
        /\ salida' = IF o = "ok" THEN salida
                     ELSE Append(salida,
                                 <<"Error al registrar en la base de datos", o>>)
        /\ IF StoreRaises(o)
           THEN /\ pc' = "Crashed"
                /\ crashedIn' = "registrar_consulta"
           ELSE /\ pc' = Siguiente(pc)
                /\ crashedIn' = crashedIn
    /\ storeAttempts' = storeAttempts + 1
    /\ trace' = Append(trace, "PersistingStore")
    /\ UNCHANGED <<run, clock, tabla, csv, appended, locals, aiOutcome,
                   logOutcome, aiCalls, logAttempts>>

\* Lines 116 / 132: registrar_consulta_csv(nombre_producto, resultado).
RegistrarConsultaCsv ==
    /\ pc = "PersistingLog"
    /\ \E o \in LogOutcomes :
        /\ o = "encode_error" => MayFailEncoding(nombre_producto, resultado)
        /\ logOutcome' = o
        /\ csv' = IF o = "ok"
                  THEN CsvAppend(csv, CsvRow(clock, nombre_producto,
                                             resultado))
                  ELSE csv
        /\ appended' = IF o = "ok" THEN appended + 1 ELSE appended
        /\ handles' = handles + LogHandlesLeft(o)
        /\ salida' = IF o \in {"open_error", "write_error", "close_error"}
                     THEN Append(salida, <<"Error al guardar en CSV", o>>)
                     ELSE salida
        /\ IF LogRaises(o)
           THEN /\ pc' = "Crashed"
                /\ crashedIn' = "registrar_consulta_csv"
           ELSE /\ pc' = Siguiente(pc)
                /\ crashedIn' = crashedIn
    /\ logAttempts' = logAttempts + 1
    /\ trace' = Append(trace, "PersistingLog")
    /\ UNCHANGED <<run, clock, tabla, db, inserted, locals, aiOutcome,
                   storeOutcome, aiCalls, storeAttempts>>

\* Lines 117 / 133: the final print of the result.
ImprimirResultado ==
    /\ pc = "Printing"
    /\ salida' = Append(salida,
                        <<"Resultado de la consulta", Str(nombre_producto),
                          Str(resultado)>>)
    /\ trace' = Append(trace, "Done")
    /\ pc' = Siguiente(pc)
    /\ UNCHANGED <<run, clock, persistent, handles, locals, outcomes,
                   counters, crashedIn>>

\* The script is run again: a new process against the same two files.
NuevaEjecucion ==
    /\ pc \in {"Done", "Aborted", "Crashed"}
    /\ run < MaxRuns
    /\ run' = run + 1
    /\ pc' = "inicializar_db"
    /\ handles' = 0
    /\ opcion' = Unset
    /\ codigo' = Unset
    /\ nombre_producto' = Unset
    /\ pregunta' = <<>>
    /\ resultado' = Unset
    /\ aiOutcome' = Unset
    /\ storeOutcome' = Unset
    /\ logOutcome' = Unset
    /\ aiCalls' = 0
    /\ storeAttempts' = 0
    /\ logAttempts' = 0
    /\ trace' = <<>>
    /\ salida' = <<>>
    /\ crashedIn' = Unset
    /\ UNCHANGED <<clock, persistent>>

Next ==
    \/ Tick
    \/ InicializarDb
    \/ ElegirOpcion
    \/ IniciarConsultaPorCodigo
    \/ IngresarNombre
    \/ ConstruirPregunta
    \/ ConsultaBot
    \/ RegistrarConsulta
    \/ RegistrarConsultaCsv
    \/ ImprimirResultado
    \/ NuevaEjecucion

Spec == Init /\ [][Next]_vars

\* ------------------------------------------------------------- vocabulary
\* The run has ended, normally or not.
Terminated == pc \in {"Done", "Aborted", "Crashed"}
\* The run reached Resolved: consultar_producto was called with an identifier.
Resolved == nombre_producto # Unset
\* The final result line has been printed.
ResultPrinted ==
    \E i \in 1..Len(salida) : salida[i][1] = "Resultado de la consulta"

TypeOK ==
    /\ run \in 1..MaxRuns
    /\ clock \in 0..MaxClock
    /\ aiCalls \in 0..1 /\ storeAttempts \in 0..1 /\ logAttempts \in 0..1
    /\ Len(db) <= MaxRuns /\ Len(csv) <= MaxRuns

\* The row this run put in the store / appended to the file (meaningful once
\* the matching outcome is "ok").
LastDb == db[Len(db)]
LastCsv == csv[Len(csv)]
\* The line printed by the except clause of registrar_consulta.
StoreErrorLogged ==
    \E i \in 1..Len(salida) :
        salida[i][1] = "Error al registrar en la base de datos"
\* The stages of the tail of the state machine, in order.
Stages ==
    <<"BuildingPrompt", "Querying", "PersistingStore", "PersistingLog", "Done">>
IsPrefix(s, t) == Len(s) <= Len(t) /\ \A i \in 1..Len(s) : s[i] = t[i]

\* ------------------------------------------------------------------ claims

\* C1: for every query that reached Resolved, a run that has ended made
\* exactly one store insert attempt and exactly one log append attempt, and
\* when the store operation failed in any way the result was still printed.
C1_SinkIndependence ==
    (Terminated /\ Resolved) =>
        /\ storeAttempts = 1
        /\ logAttempts = 1
        /\ (storeOutcome # "ok" => ResultPrinted)

\* C2: registrar_consulta never lets an exception reach its caller: every
\* failure inside it is logged and control goes on in consultar_producto.
C2_StoreNeverRaises ==
    (storeAttempts = 1 /\ storeOutcome # "ok") =>
        /\ StoreErrorLogged
        /\ crashedIn # "registrar_consulta"
        /\ pc # "Crashed"

\* C3: a run that reached Resolved ends in Done, having executed
\* BuildingPrompt, Querying, PersistingStore and PersistingLog exactly once
\* each and in that order, whatever fails on the way.
C3_ResolvedReachesDone ==
    (Terminated /\ Resolved) => (pc = "Done" /\ trace = Stages)

\* C4: consulta_bot returns the rate-limit sentinel when the service signals
\* a rate limit and the generic sentinel for every other failure, raises
\* nothing, and the run goes on to the store insert, which records the
\* sentinel.
C4_SentinelClassification ==
    (aiCalls = 1 /\ aiOutcome # "ok") =>
        /\ aiOutcome = "RateLimitError" => resultado = SentinelRateLimit
        /\ aiOutcome # "RateLimitError" => resultado = SentinelError
        /\ crashedIn # "consulta_bot"
        /\ pc = "PersistingStore" \/ storeAttempts = 1
        /\ storeOutcome = "ok" => LastDb.resultado = resultado
\* C4 witness: a rate-limited query whose sentinel row is in the store.
C4_Witness ==
    /\ aiOutcome = "RateLimitError"
    /\ storeOutcome = "ok"
    /\ LastDb.resultado = SentinelRateLimit

\* C5: the result handed to a sink is never empty and never null.
C5_ResultNonEmpty ==
    (storeAttempts = 1 \/ logAttempts = 1) => resultado \notin {"", None}

\* C6 (as claimed): when both writes of a query succeed, the row appended to
\* the flat file equals the row put in the store field by field, timestamp
\* included.  Stated here for the queries whose result is a string, which
\* both sinks hold as the same text.
C6_SameRecord ==
    (storeOutcome = "ok" /\ logOutcome = "ok" /\ resultado # None) =>
        LastCsv = <<LastDb.fecha, LastDb.producto, LastDb.resultado>>
\* C6 (amended): when both writes of a query succeed, the two rows carry the
\* same product, and the file's result field is the text of the store's
\* result (a null result is an empty field); nothing ties the two timestamps.
C6_SameProductAndResult ==
    (storeOutcome = "ok" /\ logOutcome = "ok") =>
        /\ LastDb.producto = nombre_producto
        /\ LastDb.resultado = resultado
        /\ LastCsv[2] = LastDb.producto
        /\ LastCsv[3] = CsvField(LastDb.resultado)
\* C6 witness: both writes succeeded and the clock advanced between them.
C6_Witness ==
    /\ storeOutcome = "ok"
    /\ logOutcome = "ok"
    /\ nombre_producto = "acetona"
    /\ LastDb.fecha < LastCsv[1]

\* C7: when the scan ends with no code (leer_codigo returned None) the run
\* is Aborted: no AI call, no store insert, no log append, and the only
\* line shown to the operator after the scanner's banner is the 'no code
\* detected' message.
C7_NoCodeAborts ==
    (opcion = "1" /\ codigo = None) =>
        /\ pc = "Aborted"
        /\ aiCalls = 0 /\ storeAttempts = 0 /\ logAttempts = 0
        /\ trace = <<>>
        /\ salida = << <<"Escanea un codigo QR o de barras">>,
                       <<"No se detecto ningun codigo">> >>
\* C7 witness: a scan that returned None, with rows of an earlier run in
\* both sinks.
C7_Witness ==
    /\ codigo = None
    /\ pc = "Aborted"
    /\ Len(db) = 1 /\ Len(csv) = 1

\* C8: on the scan path every decoded string, the empty one included, moves
\* the run to Resolved; Aborted is reached only when no code was detected.
C8_DecodedCodeResolves ==
    /\ pc = "Aborted" => codigo = None
    /\ (opcion = "1" /\ codigo \in Codigos) => Resolved

\* C9: registrar_consulta_csv never lets an exception reach its caller: for
\* every way the append fails, the run goes on and prints the result.
C9_LogNeverRaises ==
    (logAttempts = 1 /\ logOutcome # "ok") =>
        /\ crashedIn # "registrar_consulta_csv"
        /\ Terminated => ResultPrinted

\* C10: within a run the AI service is called at most once and before any
\* persistence, the store insert attempt precedes the log append attempt,
\* and the result is printed only after both sink attempts.
C10_StageOrder ==
    /\ IsPrefix(trace, Stages)
    /\ aiCalls <= 1 /\ storeAttempts <= 1 /\ logAttempts <= 1
    /\ storeAttempts = 1 => aiCalls = 1
    /\ logAttempts = 1 => (storeAttempts = 1 /\ storeOutcome # Unset)
    /\ ResultPrinted =>
        /\ aiCalls = 1 /\ storeAttempts = 1 /\ logAttempts = 1
        /\ logOutcome # Unset
\* C10 witness: a run that printed its result after a failed insert and a
\* failed append.
C10_Witness ==
    /\ ResultPrinted
    /\ storeOutcome = "execute_error"
    /\ logOutcome = "write_error"

\* The result as the final print shows it (meaningful once ResultPrinted).
Printed == salida[Len(salida)][3]

\* C11: for every completed query the string printed to the operator, the
\* resultado in the store and the result column of the flat file are one
\* identical string, and the persisted product is the resolved identifier.
C11_SameResultEverywhere ==
    (pc = "Done" /\ ResultPrinted /\ storeOutcome = "ok" /\ logOutcome = "ok") =>
        /\ LastDb.resultado = Printed
        /\ LastCsv[3] = Printed
        /\ LastDb.producto = nombre_producto
        /\ LastCsv[2] = nombre_producto

\* C12: after every storage operation returns or fails (inicializar_db,
\* registrar_consulta, registrar_consulta_csv) the connection or file it
\* opened has been released: no handle is open between operations.
C12_HandlesReleased == handles = 0

\* The 'no code detected' message has been printed.
NoCodeShown ==
    \E i \in 1..Len(salida) : salida[i][1] = "No se detecto ningun codigo"

\* C13: every run in which the operator chose the scan or the manual mode
\* ends normally, having shown either the final result or the 'no code
\* detected' message, whichever downstream step failed.
C13_EndsNormally ==
    (Terminated /\ opcion \in {"1", "2"}) =>
        /\ pc # "Crashed"
        /\ ResultPrinted \/ NoCodeShown

\* C14: no deduplication.  Every committed insert and every written row is
\* a separate record: after n successful writes a sink holds n records,
\* whether or not identifiers or results repeat.
C14_NoDedup ==
    /\ Len(db) = inserted
    /\ Len(csv) = appended
\* C14 witness: the same identifier queried twice with the same result at
\* the same clock reading, no sink failure: two equal rows in each sink.
C14_Witness ==
    /\ run = 2 /\ pc = "Done"
    /\ inserted = 2 /\ appended = 2
    /\ Len(db) = 2 /\ Len(csv) = 2
    /\ db[1] = db[2]
    /\ csv[1] = csv[2]

\* C15: append-only sinks.  Every step of the system leaves the rows already
\* in each sink unchanged and in place; a sink grows by at most one row per
\* step, and only by the single insert / append attempt of a query.
C15_AppendOnly ==
    [][ /\ IsPrefix(db, db')
        /\ Len(db') <= Len(db) + 1
        /\ IsPrefix(csv, csv')
        /\ Len(csv') <= Len(csv) + 1
        /\ db' # db => (storeAttempts = 0 /\ storeAttempts' = 1)
        /\ csv' # csv => (logAttempts = 0 /\ logAttempts' = 1)
      ]_vars
\* C15 witness: schema initialization has run on a table that already held
\* a row, and on a file that already held one.
C15_Witness ==
    /\ run = 2 /\ pc = "menu"
    /\ tabla
    /\ Len(db) = 1 /\ Len(csv) = 1

\* C16: on the manual path every supplied text, the empty one included,
\* resolves: by the end of the run the AI service was queried and a record
\* with that exact text as product was attempted at both sinks.
C16_ManualAlwaysResolves ==
    (opcion = "2" /\ Terminated) =>
        /\ Resolved
        /\ nombre_producto \in Textos
        /\ aiCalls = 1
        /\ storeAttempts = 1
        /\ logAttempts = 1
        /\ storeOutcome = "ok" => LastDb.producto = nombre_producto
        /\ logOutcome = "ok" => LastCsv[2] = nombre_producto

\* C17: in every state of a run, log append attempts <= store insert
\* attempts <= AI calls, any two of the counts differ by at most one, and a
\* log append is attempted only after the store insert of the same query.
C17_AttemptCounts ==
    /\ logAttempts <= storeAttempts
    /\ storeAttempts <= aiCalls
    /\ aiCalls - storeAttempts <= 1
    /\ storeAttempts - logAttempts <= 1
    /\ aiCalls - logAttempts <= 1
    /\ logAttempts = 1 =>
         \E i, j \in 1..Len(trace) :
            i < j /\ trace[i] = "PersistingStore" /\ trace[j] = "PersistingLog"
\* C17 witness: consultar_producto has returned after its insert attempt
\* and the caller has not yet attempted the append.
C17_Witness ==
    /\ pc = "PersistingLog"
    /\ aiCalls = 1 /\ storeAttempts = 1 /\ logAttempts = 0
    /\ storeOutcome = "commit_error"

====
